---------------------------- MODULE Spec2Model ----------------------------
(***************************************************************************)
(* Model of arxiv-gmail-scrapper: the digest parser of main.py, the        *)
(* chunk splitter of embed_cherry.py and the embedding loop that stores    *)
(* the chunks in the vectors table.                                        *)
(*                                                                         *)
(* A Python str is a sequence of one-character strings.  The token         *)
(* "U+00E9" stands for the single non-ASCII character e-acute.             *)
(*                                                                         *)
(* Three specifications share the variables:                               *)
(*   Spec       one call of the generator _chop, driven to its end         *)
(*   SyncSpec   the message loop of main.py over an inbox of digests       *)
(*   EmbedSpec  the article loop of embed_cherry.py over rows of           *)
(*              arxiv_specs, which drives _chop with its default arguments *)
(***************************************************************************)
EXTENDS Integers, Sequences, FiniteSets, TLC

VARIABLES
    objs,       \* the ArxivSpec objects that exist: objs[r] is the object behind reference r
    call,       \* the arguments of the running _chop call: [spec, max_length, overlap]
    orig,       \* the fields the argument object had when _chop was called
    s,          \* local s of _chop_str: the text not yet cut
    budget,     \* parameter max_length of _chop_str (max_length - meta_length of _chop)
    pc,         \* where the _chop generator stands
    windows,    \* the strings _chop_str has yielded so far, in order
    yielded,    \* the references _chop has yielded so far, in order
    sizes,      \* len(to_json()) of the yielded object at the moment of each yield
    inbox,      \* main.py _main: the decoded bodies of the messages not yet processed
    clock,      \* the time datetime.now() returns
    db,         \* the rows of table arxiv_specs
    log,        \* one entry per message processed by the loop of main.py _main
    total_new,  \* main.py _main: total_new
    articles,   \* embed_cherry.py _main: the rows _fetch_articles has yet to yield
    vectors,    \* the rows of table vectors as the connection sees them
    durable,    \* the rows of table vectors as last committed
    inserted,   \* embed_cherry.py _main: inserted
    epc,        \* where the loop of embed_cherry.py _main stands
    cur,        \* unique_loader and source of the article in hand, and the counts before it
    elog        \* one entry per article whose chunks were all stored and committed

chopVars == <<objs, call, orig, s, budget, pc, windows, yielded, sizes>>
syncVars == <<inbox, clock, db, log, total_new>>
embedVars == <<articles, vectors, durable, inserted, epc, cur, elog>>
vars == <<chopVars, syncVars, embedVars>>

-----------------------------------------------------------------------------
(* Bounds of the model *)

MaxAbsLen == 4
MaxSlack == 6
MaxOverlap == 2
MaxInbox == 2
MaxClock == 1
MaxArticles == 2

\* the histories windows/yielded/sizes record this many entries; a call whose
\* loop makes progress emits at most MaxAbsLen chunks
MaxChunks == MaxAbsLen + 2

-----------------------------------------------------------------------------
(* Python str operations *)

Min(a, b) == IF a < b THEN a ELSE b
Max(a, b) == IF a > b THEN a ELSE b

\* s[:n]
PySliceTo(str, n) ==
    IF n >= 0 THEN SubSeq(str, 1, Min(n, Len(str)))
              ELSE SubSeq(str, 1, Max(Len(str) + n, 0))

\* s[n:]
PySliceFrom(str, n) ==
    IF n >= 0 THEN SubSeq(str, Min(n, Len(str)) + 1, Len(str))
              ELSE SubSeq(str, Max(Len(str) + n, 0) + 1, Len(str))

\* A Python local holds the value of its expression, computed once:
\* Only({e(x) : x \in {v}}) is e with x bound to the value of v.
Only(S) == CHOOSE v \in S : TRUE

\* the concatenation of a sequence of strings
RECURSIVE Flatten(_)
Flatten(ss) ==
    IF Len(ss) = 0 THEN << >>
    ELSE IF Len(ss) = 1 THEN ss[1]
    ELSE LET h == Len(ss) \div 2
         IN  Flatten(SubSeq(ss, 1, h)) \o Flatten(SubSeq(ss, h + 1, Len(ss)))

\* str.find(sep, start): the index of the first occurrence of sep in str at or
\* after start, 0 if none
PyFind(str, sep, start) ==
    Only({IF hits = {} THEN 0 ELSE CHOOSE i \in hits : \A j \in hits : i <= j :
          hits \in {{i \in start..(Len(str) - Len(sep) + 1) :
                        /\ str[i] = sep[1]
                        /\ str[i + Len(sep) - 1] = sep[Len(sep)]
                        /\ SubSeq(str, i, i + Len(sep) - 1) = sep}}})

\* the pieces of str.split(sep) from index start on
RECURSIVE SplitFrom(_, _, _)
SplitFrom(str, sep, start) ==
    Only({IF i = 0 THEN <<SubSeq(str, start, Len(str))>>
          ELSE <<SubSeq(str, start, i - 1)>> \o SplitFrom(str, sep, i + Len(sep)) :
          i \in {PyFind(str, sep, start)}})

\* str.split(sep)
PySplit(str, sep) == Only({SplitFrom(text, p, 1) : text \in {str}, p \in {sep}})

\* sep.join(parts)
PyJoin(parts, sep) ==
    Only({Flatten([i \in 1..Len(ps) |-> IF i = 1 THEN ps[i] ELSE sep \o ps[i]]) :
          ps \in {parts}})

-----------------------------------------------------------------------------
(* arxiv_spec.py: ArxivSpec.to_json *)

\* what json.dumps (ensure_ascii) writes for one character
JsonEscape(c) ==
    CASE c = "\""     -> <<"\\", "\"">>
      [] c = "\\"     -> <<"\\", "\\">>
      [] c = "\n"     -> <<"\\", "n">>
      [] c = "\r"     -> <<"\\", "r">>
      [] c = "\t"     -> <<"\\", "t">>
      [] c = "U+00E9" -> <<"\\", "u", "0", "0", "e", "9">>
      [] OTHER        -> <<c>>

\* json.dumps of a str
JsonDumpsStr(str) ==
    <<"\"">> \o Flatten([i \in 1..Len(str) |-> JsonEscape(str[i])]) \o <<"\"">>

Digit(n) == <<"0", "1", "2", "3", "4", "5", "6", "7", "8", "9">>[n + 1]

\* a number of at most four digits, zero-padded to width
Padded(n, width) ==
    SubSeq(<<Digit(n \div 1000), Digit((n \div 100) % 10), Digit((n \div 10) % 10), Digit(n % 10)>>,
           5 - width, 4)

\* Date.strftime("%Y/%m/%d"), for a year of four digits
StrftimeYmd(d) ==
    Padded(d.year, 4) \o <<"/">> \o Padded(d.month, 2) \o <<"/">> \o Padded(d.day, 2)

\* json.dumps writes "key": value pairs joined by ", " between braces
JsonKey(k) == <<"\"">> \o k \o <<"\"", ":", " ">>

ToJson(spec) ==
    <<"{">>
    \o JsonKey(<<"d", "o", "i">>) \o JsonDumpsStr(spec.DOI) \o <<",", " ">>
    \o JsonKey(<<"d", "a", "t", "e">>) \o JsonDumpsStr(StrftimeYmd(spec.Date)) \o <<",", " ">>
    \o JsonKey(<<"t", "i", "t", "l", "e">>) \o JsonDumpsStr(spec.Title) \o <<",", " ">>
    \o JsonKey(<<"a", "u", "t", "h", "o", "r", "s">>) \o JsonDumpsStr(spec.Authors) \o <<",", " ">>
    \o JsonKey(<<"c", "a", "t", "e", "g", "o", "r", "i", "e", "s">>) \o JsonDumpsStr(spec.Categories) \o <<",", " ">>
    \o JsonKey(<<"c", "o", "m", "m", "e", "n", "t", "s">>) \o JsonDumpsStr(spec.Comments) \o <<",", " ">>
    \o JsonKey(<<"a", "b", "s", "t", "r", "a", "c", "t">>) \o JsonDumpsStr(spec.Abstract)
    \o <<"}">>

-----------------------------------------------------------------------------
(* embed_cherry.py: _chop and _chop_str *)

\* lines 73-74: keep three ', '-separated entries, then three ' and '-separated ones
NormalizeAuthors(authors) ==
    LET byComma == PyJoin(SubSeq(PySplit(authors, <<",", " ">>), 1,
                                 Min(3, Len(PySplit(authors, <<",", " ">>)))),
                          <<",", " ">>)
        byAnd == PySplit(byComma, <<" ", "a", "n", "d", " ">>)
    IN  PyJoin(SubSeq(byAnd, 1, Min(3, Len(byAnd))), <<",", " ">>)

\* lines 75-76, for a spec whose Authors are already normalized
MetaLength(spec) ==
    LET escape_len == Len(JsonDumpsStr(spec.Abstract)) - Len(spec.Abstract)
    IN  Len(ToJson(spec)) - Len(JsonDumpsStr(spec.Abstract)) + escape_len

\* the size check left out
ExceedsUnchecked(spec, max_length) == FALSE

\* line 79: the size check made before every yield
Exceeds(spec, max_length) == Len(ToJson(spec)) > max_length

\* the loop test with >= for >
MoreThanOneWindowOffByOne(str, max_length) == Len(str) >= max_length

\* line 66: the loop test of _chop_str
MoreThanOneWindow(str, max_length) == Len(str) > max_length

\* line 67: the window cut from the front
Window(str, max_length) == PySliceTo(str, max_length)

\* the cursor advanced without the overlap
AdvanceWithoutOverlap(str, max_length, overlap) == PySliceFrom(str, max_length)

\* line 68: the text kept for the next iteration
Advance(str, max_length, overlap) == PySliceFrom(str, max_length - overlap)

\* a history grown by one entry, up to MaxChunks entries
Record(history, x) == IF Len(history) < MaxChunks THEN Append(history, x) ELSE history

\* lines 78-84 for one window: assign it, check the size, yield the same object
Emit(w, next_pc) ==
    LET r == call.spec
    IN  /\ objs' = [objs EXCEPT ![r].Abstract = w]
        /\ windows' = Record(windows, w)
        /\ IF Exceeds(objs'[r], call.max_length)
           THEN /\ pc' = "failed"
                /\ UNCHANGED <<yielded, sizes>>
           ELSE /\ pc' = next_pc
                /\ yielded' = Record(yielded, r)
                /\ sizes' = Record(sizes, Len(ToJson(objs'[r])))

\* first next(): lines 73-77 up to the call of _chop_str
ChopBegin ==
    /\ pc = "called"
    /\ LET r == call.spec
       IN  /\ objs' = [objs EXCEPT ![r].Authors = NormalizeAuthors(objs[r].Authors)]
           /\ budget' = call.max_length - MetaLength(objs'[r])
           /\ s' = objs'[r].Abstract
    /\ pc' = "running"
    /\ UNCHANGED <<call, orig, windows, yielded, sizes, syncVars, embedVars>>

\* lines 66-68 and 78-84: a window that is not the last
ChopWindow ==
    /\ pc = "running"
    /\ MoreThanOneWindow(s, budget)
    /\ Emit(Window(s, budget), "yielded")
    /\ s' = Advance(s, budget, call.overlap)
    /\ UNCHANGED <<call, orig, budget, syncVars, embedVars>>

\* line 69 and 78-84: the rest of the text
ChopRemainder ==
    /\ pc = "running"
    /\ ~MoreThanOneWindow(s, budget)
    /\ Emit(s, "yielded_last")
    /\ UNCHANGED <<call, orig, budget, s, syncVars, embedVars>>

\* the consumer asks for the next chunk
Resume ==
    /\ pc \in {"yielded", "yielded_last"}
    /\ pc' = IF pc = "yielded" THEN "running" ELSE "done"
    /\ UNCHANGED <<objs, call, orig, s, budget, windows, yielded, sizes, syncVars, embedVars>>

-----------------------------------------------------------------------------
(* Inputs of the _chop specification *)

Chars == {"a", "\"", "U+00E9"}

RECURSIVE StrsOfLen(_)
StrsOfLen(n) ==
    IF n = 0 THEN {<< >>}
    ELSE {Append(t, c) : t \in StrsOfLen(n - 1), c \in Chars}

Abstracts == UNION {StrsOfLen(n) : n \in 0..MaxAbsLen}

EmptySpec(date) ==
    [DOI |-> << >>, Date |-> date, Title |-> << >>, Authors |-> << >>,
     Categories |-> << >>, Comments |-> << >>, MSCClass |-> << >>,
     ACMClass |-> << >>, Abstract |-> << >>]

SomeDate == [year |-> 2024, month |-> 6, day |-> 3, hour |-> 18, minute |-> 0, second |-> 0]

ArxivDoi(n) == <<"a", "r", "X", "i", "v", ":", "2", "4", "0", "6", ".">> \o <<Digit(n)>>

MetaSpecs ==
    { [EmptySpec(SomeDate) EXCEPT
          !.DOI = ArxivDoi(1), !.Title = <<"T">>,
          !.Authors = <<"A", ",", " ", "B", ",", " ", "C", ",", " ", "D", " ", "a", "n", "d", " ", "E">>,
          !.Categories = <<"c", "s">>],
      [EmptySpec(SomeDate) EXCEPT
          !.DOI = ArxivDoi(2), !.Title = <<"\"", "Q", "\"">>,
          !.Authors = <<"A", " ", "a", "n", "d", " ", "B">>,
          !.Categories = <<"c", "s">>, !.Comments = <<"U+00E9">>] }

\* the serialized size of a spec's metadata around an empty abstract
BareLength(spec) ==
    Len(ToJson([spec EXCEPT !.Authors = NormalizeAuthors(spec.Authors), !.Abstract = << >>]))

\* the default arguments of _chop
DefaultMaxLength == 1000
DefaultOverlap == 50

\* the worked example: 1200 characters of abstract behind 200 characters of metadata
ScenarioSpec ==
    LET base == [EmptySpec(SomeDate) EXCEPT !.DOI = ArxivDoi(3), !.Authors = <<"A">>,
                                            !.Categories = <<"c", "s">>]
    IN  [base EXCEPT !.Title = [i \in 1..(200 - BareLength(base)) |-> "t"],
                     !.Abstract = [i \in 1..1200 |-> <<"a", "b", "c", "d", "e", "f", "g">>[(i % 7) + 1]]]

ChopCalls ==
    { [spec |-> [m EXCEPT !.Abstract = a], max_length |-> BareLength(m) + d, overlap |-> o] :
          m \in MetaSpecs, a \in Abstracts, d \in (0 - 1)..MaxSlack, o \in 0..MaxOverlap }
    \cup { [spec |-> ScenarioSpec, max_length |-> DefaultMaxLength, overlap |-> DefaultOverlap] }

\* no call has been made yet
NoCall == [spec |-> 0, max_length |-> 0, overlap |-> 0]

\* nothing of main.py runs
SyncIdle ==
    /\ inbox = << >>
    /\ clock = 0
    /\ db = {}
    /\ log = << >>
    /\ total_new = 0

\* nothing of embed_cherry.py's _main runs
EmbedIdle ==
    /\ articles = << >>
    /\ vectors = {}
    /\ durable = {}
    /\ inserted = 0
    /\ epc = "off"
    /\ cur = [unique_loader |-> << >>, source |-> << >>, rows_before |-> 0, inserted_before |-> 0]
    /\ elog = << >>

ChopIdle ==
    /\ objs = << >>
    /\ orig = EmptySpec(SomeDate)
    /\ call = NoCall
    /\ s = << >>
    /\ budget = 0
    /\ pc = "idle"
    /\ windows = << >>
    /\ yielded = << >>
    /\ sizes = << >>

ChopInit == ChopIdle /\ SyncIdle /\ EmbedIdle

\* a caller creates the generator: _chop(spec, max_length, overlap)
ChopCall(spec, max_length, overlap) ==
    /\ objs' = Append(objs, spec)
    /\ orig' = spec
    /\ call' = [spec |-> Len(objs) + 1, max_length |-> max_length, overlap |-> overlap]
    /\ pc' = "called"
    /\ s' = << >>
    /\ budget' = 0
    /\ windows' = << >>
    /\ yielded' = << >>
    /\ sizes' = << >>

CallChop ==
    /\ pc = "idle"
    /\ \E c \in ChopCalls : ChopCall(c.spec, c.max_length, c.overlap)
    /\ UNCHANGED <<syncVars, embedVars>>

ChopNext == CallChop \/ ChopBegin \/ ChopWindow \/ ChopRemainder \/ Resume

Spec == ChopInit /\ [][ChopNext]_vars

-----------------------------------------------------------------------------
(* Claims about _chop and _chop_str *)

Finished == pc \in {"yielded_last", "done"}

\* C1: every chunk _chop yields serializes, at the moment it is yielded, to at
\* most max_length characters, whatever the abstract contains.
BudgetInvariant == \A i \in 1..Len(sizes) : sizes[i] <= call.max_length

\* C1 witness: a call that ends after several chunks, cut from an abstract with an
\* escaped character, the first of them filling the budget exactly
BudgetWitness ==
    /\ pc = "done"
    /\ Len(yielded) >= 2
    /\ \E i \in 1..Len(windows[1]) : windows[1][i] = "U+00E9"
    /\ sizes[1] = call.max_length

\* the chunk abstracts joined after dropping the first overlap characters of all but the first
Rejoin(ws, overlap) ==
    Flatten([i \in 1..Len(ws) |-> IF i = 1 THEN ws[i] ELSE PySliceFrom(ws[i], overlap)])

\* C2: with 0 <= overlap < effectiveBudget, the chunks of a finished call, joined
\* without their overlapping prefixes, are the original abstract.
Reconstruction ==
    (pc = "done" /\ 0 <= call.overlap /\ call.overlap < budget)
        => Rejoin(windows, call.overlap) = orig.Abstract

\* C2 witness: three or more chunks with a real overlap
ReconstructionWitness ==
    /\ pc = "done"
    /\ call.overlap >= 1
    /\ call.overlap < budget
    /\ Len(windows) >= 3

\* C4: with effectiveBudget <= 0 no Record is ever yielded.
NoChunkWithoutBudget == (pc \notin {"idle", "called"} /\ budget <= 0) => yielded = << >>

\* C7: every Record yielded so far has the metadata of the normalized input and
\* still carries its own window.
SiblingsKeepWindows ==
    \A i \in 1..Len(yielded) :
        objs[yielded[i]] = [orig EXCEPT !.Authors = NormalizeAuthors(orig.Authors),
                                        !.Abstract = windows[i]]

\* C8: with effectiveBudget B > overlap o >= 0, window k (from 0) is the characters
\* [k(B-o), k(B-o)+B) of the abstract while more than B characters remain from
\* k(B-o), and the first window for which no more than B remain is the whole
\* remainder and the last; 1200 characters with B = 800 and o = 50 give [0,800)
\* and [750,1200); the empty abstract gives one empty chunk.
WindowFormula ==
    (pc \notin {"idle", "called"} /\ 0 <= call.overlap /\ call.overlap < budget) =>
        LET A == orig.Abstract
            step == budget - call.overlap
        IN  /\ \A i \in 1..Len(windows) :
                  LET off == (i - 1) * step
                  IN  IF Len(A) - off > budget
                      THEN /\ windows[i] = SubSeq(A, off + 1, off + budget)
                           /\ ~(i = Len(windows) /\ Finished)
                      ELSE /\ windows[i] = SubSeq(A, off + 1, Len(A))
                           /\ i = Len(windows)
                           /\ Finished
            /\ (pc = "done" /\ Len(A) = 1200 /\ budget = 800 /\ call.overlap = 50)
                  => windows = <<SubSeq(A, 1, 800), SubSeq(A, 751, 1200)>>
            /\ (pc = "done" /\ A = << >>) => windows = << << >> >>

\* C8 witness: the worked example has run to its end
WindowWitness ==
    /\ pc = "done"
    /\ Len(orig.Abstract) = 1200
    /\ budget = 800
    /\ call.overlap = 50
    /\ Len(windows) = 2

\* C9: the loop of a call makes progress, so the call ends: every iteration that
\* yields a window and goes on leaves strictly less text to cut.
ChopProgress == [][(pc = "running" /\ pc' = "yielded") => Len(s') < Len(s)]_vars


-----------------------------------------------------------------------------
(* main.py: _parse_digest *)

\* '-' * 78 and '%%%---' * 13
SepWidth == 78
TrailerRepeat == 13

CRLF == <<"\r", "\n">>
Separator == [i \in 1..SepWidth |-> "-"] \o CRLF
DoubleSeparator == Separator \o Separator
Trailer == Flatten([i \in 1..TrailerRepeat |-> <<"%", "%", "%", "-", "-", "-">>])
Marker == <<"\\", "\\">> \o CRLF

Whitespace == {" ", "\t", "\n", "\r", "\f"}

\* str.strip()
PyStrip(str) ==
    Only({Only({IF keep = {} THEN << >>
                ELSE SubSeq(text, CHOOSE i \in keep : \A j \in keep : i <= j,
                               CHOOSE i \in keep : \A j \in keep : i >= j) :
                keep \in {{i \in 1..Len(text) : text[i] \notin Whitespace}}}) :
          text \in {str}})

\* str.replace(old, new)
PyReplace(str, old, new) == PyJoin(PySplit(str, old), new)

\* str.startswith(prefix)
PyStartsWith(str, prefix) ==
    Len(str) >= Len(prefix) /\ SubSeq(str, 1, Len(prefix)) = prefix

\* the outcome of a step that may raise: ok is FALSE when it raised
Raised == [ok |-> FALSE, value |-> << >>]
Returned(v) == [ok |-> TRUE, value |-> v]

Digits == {Digit(n) : n \in 0..9}

IsNumber(str, minLen, maxLen) ==
    /\ Len(str) >= minLen
    /\ Len(str) <= maxLen
    /\ \A i \in 1..Len(str) : str[i] \in Digits

RECURSIVE Number(_)
Number(str) ==
    IF Len(str) = 0 THEN 0
    ELSE 10 * Number(SubSeq(str, 1, Len(str) - 1))
         + (CHOOSE n \in 0..9 : Digit(n) = str[Len(str)])

WeekdayNames == {<<"M", "o", "n">>, <<"T", "u", "e">>, <<"W", "e", "d">>, <<"T", "h", "u">>, <<"F", "r", "i">>, <<"S", "a", "t">>, <<"S", "u", "n">>}

MonthNames == <<<<"J", "a", "n">>, <<"F", "e", "b">>, <<"M", "a", "r">>, <<"A", "p", "r">>, <<"M", "a", "y">>, <<"J", "u", "n">>,
                <<"J", "u", "l">>, <<"A", "u", "g">>, <<"S", "e", "p">>, <<"O", "c", "t">>, <<"N", "o", "v">>, <<"D", "e", "c">>>>

ZoneNames == {<<"U", "T", "C">>, <<"G", "M", "T">>}

DaysIn(year, month) ==
    IF month = 2
    THEN (IF year % 4 = 0 /\ (year % 100 # 0 \/ year % 400 = 0) THEN 29 ELSE 28)
    ELSE IF month \in {4, 6, 9, 11} THEN 30 ELSE 31

\* datetime.strptime(str, "%a, %d %b %Y %H:%M:%S %Z") for text whose fields are
\* separated by single spaces and spelled as the digest spells them; anything
\* else raises ValueError
Strptime(str) ==
    Only({IF Len(f) # 6 THEN Raised
          ELSE Only({
            IF /\ Len(f[1]) = 4
               /\ SubSeq(f[1], 1, 3) \in WeekdayNames
               /\ f[1][4] = ","
               /\ IsNumber(f[2], 1, 2)
               /\ \E m \in 1..12 : MonthNames[m] = f[3]
               /\ IsNumber(f[4], 4, 4)
               /\ Len(hms) = 3
               /\ \A i \in 1..3 : IsNumber(hms[i], 1, 2)
               /\ f[6] \in ZoneNames
            THEN Only({IF /\ d.year >= 1
                          /\ d.day >= 1
                          /\ d.day <= DaysIn(d.year, d.month)
                          /\ d.hour <= 23
                          /\ d.minute <= 59
                          /\ d.second <= 59
                       THEN Returned(d)
                       ELSE Raised :
                       d \in {[year |-> Number(f[4]),
                               month |-> CHOOSE m \in 1..12 : MonthNames[m] = f[3],
                               day |-> Number(f[2]),
                               hour |-> Number(hms[1]),
                               minute |-> Number(hms[2]),
                               second |-> Number(hms[3])]}})
            ELSE Raised :
            hms \in {PySplit(f[5], <<":">>)}}) :
          f \in {PySplit(str, <<" ">>)}})

\* datetime.now() at the given time
Now(time) == [year |-> 2024, month |-> 6, day |-> 4, hour |-> 9, minute |-> 0, second |-> time]

\* the literal prefixes of lines 120-133
DatePrefix == <<"D", "a", "t", "e", ":", " ">>
TitlePrefix == <<"T", "i", "t", "l", "e", ":", " ">>
AuthorsPrefix == <<"A", "u", "t", "h", "o", "r", "s", ":", " ">>
CategoriesPrefix == <<"C", "a", "t", "e", "g", "o", "r", "i", "e", "s", ":", " ">>
CommentsPrefix == <<"C", "o", "m", "m", "e", "n", "t", "s", ":", " ">>
MscPrefix == <<"M", "S", "C", "-", "c", "l", "a", "s", "s", ":", " ">>
AcmPrefix == <<"A", "C", "M", "-", "c", "l", "a", "s", "s", ":", " ">>

\* lines 120-133: one header line assigned to the field its prefix names
ApplyItem(spec, item) ==
    IF PyStartsWith(item, DatePrefix)
    THEN Only({IF d.ok THEN Returned([spec EXCEPT !.Date = d.value]) ELSE Raised :
               d \in {Strptime(PySplit(PySliceFrom(item, Len(DatePrefix)),
                                       <<" ", " ", " ">>)[1])}})
    ELSE IF PyStartsWith(item, TitlePrefix)
    THEN Returned([spec EXCEPT !.Title = PySliceFrom(item, Len(TitlePrefix))])
    ELSE IF PyStartsWith(item, AuthorsPrefix)
    THEN Returned([spec EXCEPT !.Authors = PySliceFrom(item, Len(AuthorsPrefix))])
    ELSE IF PyStartsWith(item, CategoriesPrefix)
    THEN Returned([spec EXCEPT !.Categories = PySliceFrom(item, Len(CategoriesPrefix))])
    ELSE IF PyStartsWith(item, CommentsPrefix)
    THEN Returned([spec EXCEPT !.Comments = PySliceFrom(item, Len(CommentsPrefix))])
    ELSE IF PyStartsWith(item, MscPrefix)
    THEN Returned([spec EXCEPT !.MSCClass = PySliceFrom(item, Len(MscPrefix))])
    ELSE IF PyStartsWith(item, AcmPrefix)
    THEN Returned([spec EXCEPT !.ACMClass = PySliceFrom(item, Len(AcmPrefix))])
    ELSE Returned(spec)

\* lines 119-133: the loop over header_items[1:], from item i on
RECURSIVE ApplyItems(_, _, _)
ApplyItems(spec, items, i) ==
    IF i > Len(items) THEN Returned(spec)
    ELSE Only({IF r.ok THEN ApplyItems(r.value, items, i + 1) ELSE Raised :
               r \in {ApplyItem(spec, items[i])}})

\* lines 112-134 for one block: the ArxivSpec appended to specs, or the exception
\* raised (IndexError when the block has no header part, ValueError from strptime)
ExtractBlock(message, time) ==
    Only({IF Len(parts) < 2 THEN Raised
          ELSE Only({ApplyItems([EmptySpec(Now(time)) EXCEPT !.Abstract = abstract,
                                                             !.DOI = header_items[1]],
                                header_items, 2) :
                     abstract \in {IF Len(parts) >= 3
                                   THEN PyStrip(PySplit(PyReplace(parts[3], CRLF, <<" ">>),
                                                        <<"\\", "\\">>)[1])
                                   ELSE << >>},
                     header_items \in {PySplit(PyReplace(parts[2], CRLF \o <<" ", " ">>,
                                                         <<" ">>), CRLF)}}) :
          parts \in {PySplit(message, Marker)}})

\* line 106: the sections of the body
Sections(body) == PySplit(PyStrip(body), DoubleSeparator)

\* line 110: the article blocks of the third section
Fragments(body) == PySplit(PySplit(Sections(body)[3], Trailer)[1], Separator)

\* _parse_digest: the list returned, or the exception of the first block that raises
ParseDigest(body, time) ==
    IF Len(Sections(body)) < 3 THEN Returned(<< >>)
    ELSE Only({IF \A k \in 1..Len(results) : results[k].ok
               THEN Returned([k \in 1..Len(results) |-> results[k].value])
               ELSE Raised :
               results \in {Only({[k \in 1..Len(messages) |-> ExtractBlock(messages[k], time)] :
                                  messages \in {Fragments(body)}})}})

-----------------------------------------------------------------------------
(* main.py: upsert_batch and the message loop of _main *)

\* Date.isoformat(timespec="seconds")
IsoFormat(d) ==
    Padded(d.year, 4) \o <<"-">> \o Padded(d.month, 2) \o <<"-">> \o Padded(d.day, 2)
    \o <<"T">> \o Padded(d.hour, 2) \o <<":">> \o Padded(d.minute,
         2) \o <<":">> \o Padded(d.second, 2)

\* the tuple bound to INSERT_SQL for one spec
Row(spec) ==
    [doi |-> spec.DOI, date |-> IsoFormat(spec.Date), title |-> spec.Title,
     authors |-> spec.Authors, categories |-> spec.Categories, comments |-> spec.Comments,
     msc_class |-> spec.MSCClass, acm_class |-> spec.ACMClass, abstract |-> spec.Abstract]

\* INSERT OR IGNORE INTO arxiv_specs: doi is the primary key
InsertOrIgnore(table, row) ==
    IF \E r \in table : r.doi = row.doi THEN table ELSE table \cup {row}

\* executemany over the specs from the i-th on
RECURSIVE UpsertFrom(_, _, _)
UpsertFrom(table, specs, i) ==
    IF i > Len(specs) THEN table
    ELSE Only({UpsertFrom(t, specs, i + 1) : t \in {InsertOrIgnore(table, Row(specs[i]))}})

\* upsert_batch: the table afterwards
UpsertBatch(table, specs) == UpsertFrom(table, specs, 1)

\* lines 275-282: a message is fetched, parsed and stored; an exception of
\* _parse_digest is caught at line 283 and the message is skipped
ProcessMessage ==
    /\ inbox # << >>
    /\ \E parsed \in {ParseDigest(Head(inbox), clock)} :
           log' = Append(log, [body |-> Head(inbox), time |-> clock, ok |-> parsed.ok,
                               specs |-> parsed.value])
    /\ db' = IF log'[Len(log')].ok THEN UpsertBatch(db, log'[Len(log')].specs) ELSE db
    /\ total_new' = total_new + (Cardinality(db') - Cardinality(db))
    /\ inbox' = Tail(inbox)
    /\ UNCHANGED <<clock, chopVars, embedVars>>

\* line 275 raises (the Gmail API fails): the message is skipped
MessageGetFails ==
    /\ inbox # << >>
    /\ inbox' = Tail(inbox)
    /\ UNCHANGED <<clock, db, log, total_new, chopVars, embedVars>>

\* time passes
Tick ==
    /\ clock < MaxClock
    /\ clock' = clock + 1
    /\ UNCHANGED <<inbox, db, log, total_new, chopVars, embedVars>>

-----------------------------------------------------------------------------
(* Inputs of the message loop: digests in the layout of the arXiv mailing *)

GoodBlock1 ==
    Marker
    \o <<"a", "r", "X", "i", "v", ":", "2", "4", "0", "6", ".", "0", "0", "0", "0", "1", "\r",
         "\n", "D", "a", "t", "e", ":", " ", "M", "o", "n", ",", " ", "3", " ", "J", "u", "n",
         " ", "2", "0", "2", "4", " ", "1", "8", ":", "0", "0", ":", "0", "0", " ", "G", "M",
         "T", " ", " ", " ", "(", "1", "2", "k", "b", ")", "\r", "\n", "\r", "\n", "T", "i",
         "t", "l", "e", ":", " ", "O", "n", " ", "a", "\r", "\n", " ", " ", "b", "\r", "\n",
         "A", "u", "t", "h", "o", "r", "s", ":", " ", "A", ",", " ", "B", "\r", "\n", "C", "a",
         "t", "e", "g", "o", "r", "i", "e", "s", ":", " ", "c", "s", ".", "A", "I", "\r",
         "\n">>
    \o Marker
    \o <<" ", " ", "x", " ", "y", "\r", "\n", "z", "\r", "\n", "\\", "\\", " ", "(", " ", "u",
         " ", ",", " ", "1", "2", "k", "b", ")", "\r", "\n">>

GoodBlock2 ==
    Marker
    \o <<"a", "r", "X", "i", "v", ":", "2", "4", "0", "6", ".", "0", "0", "0", "0", "2", "\r",
         "\n", "D", "a", "t", "e", ":", " ", "T", "u", "e", ",", " ", "4", " ", "J", "u", "n",
         " ", "2", "0", "2", "4", " ", "0", "9", ":", "0", "5", ":", "0", "7", " ", "G", "M",
         "T", " ", " ", " ", "(", "8", "k", "b", ")", "\r", "\n", "\r", "\n", "T", "i", "t",
         "l", "e", ":", " ", "T", "\r", "\n", "A", "u", "t", "h", "o", "r", "s", ":", " ", "C",
         "\r", "\n", "C", "a", "t", "e", "g", "o", "r", "i", "e", "s", ":", " ", "c", "s", ".",
         "C", "L", "\r", "\n", "C", "o", "m", "m", "e", "n", "t", "s", ":", " ", "2", " ", "p",
         "\r", "\n", "M", "S", "C", "-", "c", "l", "a", "s", "s", ":", " ", "6", "8", "\r",
         "\n", "A", "C", "M", "-", "c", "l", "a", "s", "s", ":", " ", "I", ".", "2", "\r",
         "\n", "D", "O", "I", ":", " ", "1", "0", ".", "1", "\r", "\n">>
    \o Marker
    \o <<" ", " ", "w", "\r", "\n", "\\", "\\", " ", "(", " ", "v", " ", ",", " ", "8", "k",
         "b", ")", "\r", "\n">>

\* a replacement entry: no Date line and no abstract part
NoDateBlock ==
    Marker
    \o <<"a", "r", "X", "i", "v", ":", "2", "4", "0", "6", ".", "0", "0", "0", "0", "3", "\r",
         "\n", "r", "e", "p", "l", "a", "c", "e", "d", " ", "w", "i", "t", "h", " ", "r", "e",
         "v", "i", "s", "e", "d", " ", "v", "e", "r", "s", "i", "o", "n", "\r", "\n", "T", "i",
         "t", "l", "e", ":", " ", "R", "\r", "\n", "A", "u", "t", "h", "o", "r", "s", ":", " ",
         "D", "\r", "\n", "C", "a", "t", "e", "g", "o", "r", "i", "e", "s", ":", " ", "c", "s",
         ".", "L", "G", "\r", "\n">>
    \o <<"\\", "\\", " ", "(", " ", "r", " ", ",", " ", "5", "k", "b", ")", "\r", "\n">>

BadDateBlock ==
    Marker
    \o <<"a", "r", "X", "i", "v", ":", "2", "4", "0", "6", ".", "0", "0", "0", "0", "4", "\r",
         "\n", "D", "a", "t", "e", ":", " ", "3", " ", "J", "u", "n", " ", "2", "0", "2", "4",
         "\r", "\n", "T", "i", "t", "l", "e", ":", " ", "B", "\r", "\n", "A", "u", "t", "h",
         "o", "r", "s", ":", " ", "E", "\r", "\n", "C", "a", "t", "e", "g", "o", "r", "i", "e",
         "s", ":", " ", "c", "s", ".", "A", "I", "\r", "\n">>
    \o Marker
    \o <<" ", " ", "q", "\r", "\n", "\\", "\\", " ", "(", " ", "b", " ", ",", " ", "1", "k",
         "b", ")", "\r", "\n">>

\* a block without the \\ marker
NoHeaderBlock == <<"n", "o", " ", "m", "a", "r", "k", "e", "r", "\r", "\n">>

Listings ==
    { <<GoodBlock1>>,
      <<GoodBlock1, GoodBlock2>>,
      <<NoDateBlock>>,
      <<GoodBlock1, NoDateBlock>>,
      <<GoodBlock1, BadDateBlock>>,
      <<NoHeaderBlock, GoodBlock2>>,
      <<GoodBlock2, << >> >>,
      <<GoodBlock1, GoodBlock2, <<"\r", "\n">>>> }

Preamble == <<"\r", "\n", "S", "e", "n", "d", " ", "a", "n", "y", " ", "c", "o", "m", "m", "e", "n", "t", "s", "\r", "\n">>
Intro == <<"S", "u", "b", "m", "i", "s", "s", "i", "o", "n", "s", " ", "t", "o", ":", " ", "c", "s", "\r", "\n">>
Footer == <<"\r", "\n", "T", "o", " ", "u", "n", "s", "u", "b", "s", "c", "r", "i", "b", "e", "\r", "\n">>

\* a digest: two double separators, the listing, the trailer
Digest(blocks) ==
    Preamble \o DoubleSeparator \o Intro \o DoubleSeparator
    \o PyJoin(blocks, Separator) \o Trailer \o Footer

\* a message that is no digest: one double separator only
NoDigest == Preamble \o DoubleSeparator \o GoodBlock1

Bodies == {Digest(l) : l \in Listings} \cup {NoDigest}

Inboxes == UNION {[1..n -> Bodies] : n \in 1..MaxInbox}

SyncInit ==
    /\ ChopIdle
    /\ EmbedIdle
    /\ inbox \in Inboxes
    /\ clock = 0
    /\ db = {}
    /\ log = << >>
    /\ total_new = 0

SyncNext == ProcessMessage \/ MessageGetFails \/ Tick

SyncSpec == SyncInit /\ [][SyncNext]_vars

-----------------------------------------------------------------------------
(* Claims about _parse_digest and the message loop *)

\* the fragments of a digest without a trailing empty or whitespace-only one
CountedFragments(body) ==
    LET f == Fragments(body)
    IN  IF PyStrip(f[Len(f)]) = << >> THEN SubSeq(f, 1, Len(f) - 1) ELSE f

\* C3: when a block of a digest fails to parse, the Records of the well-formed
\* blocks of the same digest are still handed to upsert_batch.
FailureConfined ==
    \A i \in 1..Len(log) :
        Len(Sections(log[i].body)) >= 3 =>
            \A k \in 1..Len(Fragments(log[i].body)) :
                LET r == ExtractBlock(Fragments(log[i].body)[k], log[i].time)
                IN  r.ok => \E j \in 1..Len(log[i].specs) : log[i].specs[j] = r.value

\* C5: a digest of three or more sections whose fragments are article blocks,
\* possibly followed by an empty or whitespace-only fragment, gives one Record
\* per article block, in order; the trailing fragment is not counted.
OneRecordPerFragment ==
    \A i \in 1..Len(log) :
        LET body == log[i].body
        IN  (/\ Len(Sections(body)) >= 3
             /\ \A k \in 1..Len(CountedFragments(body)) :
                   ExtractBlock(CountedFragments(body)[k], log[i].time).ok)
            => /\ log[i].ok
               /\ log[i].specs = [k \in 1..Len(CountedFragments(body)) |->
                                     ExtractBlock(CountedFragments(body)[k], log[i].time).value]

\* C6: two extractions of the same text give the same Records.
ExtractionRepeatable ==
    \A i, j \in 1..Len(log) :
        (log[i].body = log[j].body /\ log[i].ok /\ log[j].ok) => log[i].specs = log[j].specs

-----------------------------------------------------------------------------
(* embed_cherry.py: the main loop of _main *)

\* SELECT COUNT(*) FROM vectors WHERE uniqueLoaderId = ?
CountLoader(table, unique_loader) ==
    Cardinality({r \in table : r.uniqueLoaderId = unique_loader})

\* line 131: spec_.DOI.split(':')[1].split(' ')[0]; IndexError without a ':'
DoiOf(spec) ==
    IF Len(PySplit(spec.DOI, <<":">>)) < 2 THEN Raised
    ELSE Returned(PySplit(PySplit(spec.DOI, <<":">>)[2], <<" ">>)[1])

\* line 132
UniqueLoader(doi) == <<"W", "e", "b", "L", "o", "a", "d", "e", "r", "_", "a", "r", "x", "i", "v", "_">> \o doi

\* line 135
SourceOf(doi) == <<"h", "t", "t", "p", "s", ":", "/", "/", "a", "r", "x", "i", "v", ".", "o", "r", "g", "/", "a", "b", "s", "/">> \o doi

\* the id column of the inserted row (line 157)
RowId(spec, meta_id) == spec.DOI

\* lines 150-164: INSERT OR IGNORE INTO vectors; id is the primary key and
\* pageContent is UNIQUE, a row that conflicts with either is dropped silently
InsertVector(table, row) ==
    IF \E r \in table : r.id = row.id \/ r.pageContent = row.pageContent
    THEN table
    ELSE table \cup {row}

\* lines 131-134: the article has rows in vectors already and is skipped
EmbedSkip ==
    /\ epc = "fetch"
    /\ articles # << >>
    /\ DoiOf(Head(articles)).ok
    /\ CountLoader(vectors, UniqueLoader(DoiOf(Head(articles)).value)) # 0
    /\ articles' = Tail(articles)
    /\ UNCHANGED <<vectors, durable, inserted, epc, cur, elog, chopVars, syncVars>>

\* lines 131-137: the article is new: _chop(spec_) is called with its defaults
EmbedStart ==
    /\ epc = "fetch"
    /\ articles # << >>
    /\ DoiOf(Head(articles)).ok
    /\ CountLoader(vectors, UniqueLoader(DoiOf(Head(articles)).value)) = 0
    /\ cur' = [unique_loader |-> UniqueLoader(DoiOf(Head(articles)).value),
               source |-> SourceOf(DoiOf(Head(articles)).value),
               rows_before |-> Cardinality(vectors),
               inserted_before |-> inserted]
    /\ ChopCall(Head(articles), DefaultMaxLength, DefaultOverlap)
    /\ epc' = "chunks"
    /\ UNCHANGED <<articles, vectors, durable, inserted, elog, syncVars>>

\* lines 138-168 for one yielded spec, then the next chunk is asked for
EmbedChunk ==
    /\ epc = "chunks"
    /\ pc \in {"yielded", "yielded_last"}
    /\ LET spec == objs[yielded[Len(yielded)]]
           suffix == CountLoader(vectors, cur.unique_loader)
           meta_id == cur.unique_loader \o <<"_">> \o <<Digit(suffix)>>
       IN  vectors' = InsertVector(vectors,
                          [id |-> RowId(spec, meta_id),
                           pageContent |-> ToJson(spec),
                           uniqueLoaderId |-> cur.unique_loader,
                           source |-> cur.source,
                           metadata_id |-> meta_id])
    /\ inserted' = inserted + 1
    /\ pc' = IF pc = "yielded" THEN "running" ELSE "done"
    /\ UNCHANGED <<articles, durable, epc, cur, elog, syncVars,
                   objs, call, orig, s, budget, windows, yielded, sizes>>

\* lines 169-170: the loop over the chunks has ended
EmbedCommit ==
    /\ epc = "chunks"
    /\ pc = "done"
    /\ durable' = vectors
    /\ elog' = Append(elog, [unique_loader |-> cur.unique_loader,
                             chunks |-> Len(yielded),
                             rows_added |-> Cardinality(vectors) - cur.rows_before,
                             counted |-> inserted - cur.inserted_before])
    /\ articles' = Tail(articles)
    /\ epc' = "fetch"
    /\ pc' = "idle"
    /\ UNCHANGED <<vectors, inserted, cur, syncVars,
                   objs, call, orig, s, budget, windows, yielded, sizes>>

\* line 148: _embed raises (HTTP error, wrong dimension); the exception leaves
\* _main and the connection rolls back what was not committed
EmbedFails ==
    /\ epc = "chunks"
    /\ pc \in {"yielded", "yielded_last"}
    /\ vectors' = durable
    /\ epc' = "crashed"
    /\ UNCHANGED <<articles, durable, inserted, cur, elog, chopVars, syncVars>>

\* the assertion of _chop (line 83) fails: the same way out
ChopAsserts ==
    /\ epc = "chunks"
    /\ pc = "failed"
    /\ vectors' = durable
    /\ epc' = "crashed"
    /\ UNCHANGED <<articles, durable, inserted, cur, elog, chopVars, syncVars>>

-----------------------------------------------------------------------------
(* Inputs of the embedding loop: rows of arxiv_specs, and vectors of an earlier run *)

\* a text of n characters
Text(n) == [i \in 1..n |-> <<"a", "b", "c", "d", "e", "f", "g">>[(i % 7) + 1]]

Article(n, title, abstract) ==
    [EmptySpec(SomeDate) EXCEPT !.DOI = ArxivDoi(n), !.Title = title, !.Authors = <<"A">>,
                                !.Categories = <<"c", "s">>, !.Abstract = abstract]

\* one chunk, two chunks, three chunks, and metadata beyond max_length
ShortArticle == Article(1, <<"T">>, Text(8))
LongArticle == Article(2, <<"T">>, Text(DefaultMaxLength))
LongerArticle == Article(3, <<"T">>, Text(2 * DefaultMaxLength))
HugeTitleArticle == Article(4, Text(DefaultMaxLength), Text(8))

Articles == {ShortArticle, LongArticle, LongerArticle, HugeTitleArticle}

ArticleLists ==
    UNION {{l \in [1..n -> Articles] : \A i, j \in 1..n : l[i].DOI = l[j].DOI => i = j} :
           n \in 1..MaxArticles}

\* what an earlier run left for an article of one chunk
EarlierRows(spec) ==
    {[id |-> spec.DOI,
      pageContent |-> ToJson(spec),
      uniqueLoaderId |-> UniqueLoader(DoiOf(spec).value),
      source |-> SourceOf(DoiOf(spec).value),
      metadata_id |-> UniqueLoader(DoiOf(spec).value) \o <<"_", "0">>]}

EmbedInit ==
    /\ ChopIdle
    /\ SyncIdle
    /\ articles \in ArticleLists
    /\ vectors \in {{}, EarlierRows(ShortArticle)}
    /\ durable = vectors
    /\ inserted = 0
    /\ epc = "fetch"
    /\ cur = [unique_loader |-> << >>, source |-> << >>, rows_before |-> 0, inserted_before |-> 0]
    /\ elog = << >>

EmbedNext ==
    \/ EmbedSkip
    \/ EmbedStart
    \/ ChopBegin
    \/ ChopWindow
    \/ ChopRemainder
    \/ EmbedChunk
    \/ EmbedCommit
    \/ EmbedFails
    \/ ChopAsserts

EmbedSpec == EmbedInit /\ [][EmbedNext]_vars

-----------------------------------------------------------------------------
(* Claims about the embedding loop *)

\* C10: once an article that had no rows in vectors has been processed and its
\* abstract gave n chunks, vectors holds n rows with the article's
\* uniqueLoaderId, and inserted has grown by the number of rows added.
OneRowPerChunk ==
    \A i \in 1..Len(elog) :
        /\ CountLoader(vectors, elog[i].unique_loader) = elog[i].chunks
        /\ elog[i].counted = elog[i].rows_added

=============================================================================
